---- MODULE Spec2Model ----
(***************************************************************************)
(* Session / token lifecycle of web-blog.                                  *)
(*                                                                         *)
(* Client side: the axios response interceptor of client/src/utils/api.ts  *)
(* (single-flight refresh, wait queue, retry, redirect on failure).        *)
(* One action is one event-loop task; continuations released by            *)
(* onRefreshComplete run as microtasks before the next task.  The          *)
(* AuthProvider of client/src/context/AuthContext.tsx (initAuth, login,    *)
(* logout) makes its requests through the same api instance.               *)
(*                                                                         *)
(* Server side: the Session Issuer (login, rotate, logout), the Token      *)
(* Codec's expiry check and the Revocation Store with its process-local    *)
(* fallback.  The FastAPI sources are not part of src/; these definitions  *)
(* follow sections 3 to 5 of the design text.                              *)
(***************************************************************************)
EXTENDS Integers, Sequences, FiniteSets, TLC

\* ------------------------------------------------------------------ bounds
NReq == 2
MaxAbort == 1
NCall == 2
RefreshTtl == 1

Reqs == 1..NReq
RotCalls == 1..NCall

\* clock-skew tolerance applied to expires_at checks, in clock ticks
Skew == 1

\* lifetime of an access token, in clock ticks
AccessTtl == 1

\* one refresh token from the login and one from each rotate() call
MaxTok == NCall + 1
Toks == 1..MaxTok

\* access tokens: a in Toks was issued together with refresh token a; 0 is
\* the access token of a login without persistent session
Accs == 0..MaxTok

\* the clock runs until the first token is past its expiry and the tolerance
MaxTime == RefreshTtl + Skew + 1

\* ------------------------------------------------------- program constants
\* URLs are sequences of path segments; String.includes is modelled as
\* "contiguous subsequence".
SKIP_AUTH_REDIRECT_NoMe ==
    << <<"api", "auth", "login">>,
       <<"api", "auth", "logout">>, <<"api", "auth", "refresh">> >>

SKIP_AUTH_REDIRECT ==
    << <<"api", "auth", "me">>, <<"api", "auth", "login">>,
       <<"api", "auth", "logout">>, <<"api", "auth", "refresh">> >>

PostsUrl == <<"api", "posts">>

\* the authentication endpoints the callers use (AuthContext.tsx:30,46,52,67)
\* and the refresh endpoint
AuthUrls ==
    { <<"api", "auth", "login">>, <<"api", "auth", "logout">>,
      <<"api", "auth", "refresh">>, <<"api", "auth", "me">> }

Urls == {PostsUrl} \cup AuthUrls

\* request configs the callers pass to api(): url, _skipAuthRedirect
Configs == {[url |-> PostsUrl, skip |-> b] : b \in BOOLEAN}
             \cup {[url |-> u, skip |-> FALSE] : u \in Urls \ {PostsUrl}}

\* HTTP outcomes of one send; 500 stands for every failure that is not a 401
\* (an error status, or no response at all: error.response undefined)
Statuses == {200, 401, 500}

\* the ways the refresh call can fail; each makes axios.post reject
FailKinds == {"error_response", "network_error", "timeout"}

\* why the refresh endpoint refuses a token; each is an error response
RefusalReasons == {"Reused", "Expired", "Invalid", "Missing"}

LoginPath == <<"/", "login">>
EditorPath == <<"/", "editor">>
Paths == {LoginPath, EditorPath}

NoError == [status |-> -1, attempt |-> 0]
Canceled == [status |-> -2, attempt |-> 0]

VARIABLES
    now,                 \* server clock
    nTok,                \* refresh tokens issued so far (token ids 1..nTok)
    rtExp,               \* expires_at of each refresh token (0: not issued)
    storeUp,             \* whether the shared Revocation Store is reachable
    shared,              \* shared store: token id -> time its entry lapses (0: none)
    local,               \* the process-local fallback store, same shape
    cpc,                 \* position of each rotate() call
    ctok,                \* the refresh token it was given
    cres,                \* its result
    cagain,              \* the token had been rotated before the call began
    csame,               \* its contains() read the store that recorded the token's
                         \* first rotation, at a time <= the token's expires_at
    rotIn,               \* the store that recorded the first rotation of each token
    cnew,                \* the refresh token the call issued (0: none)
    cout,                \* the token had been logged out before the call began
    outIn,               \* the store that recorded the first logout of each token
    warned,              \* the degradation of the current outage has been logged
    warnings,            \* StoreDegraded warnings logged so far
    ioDown,              \* a store call was made during the current outage
    hit,                 \* outages so far during which a store call was made
    downIO,              \* store calls made so far while the shared store was down
    lres,                \* what login() returned
    acExp,               \* expires_at of each access token (-1: not issued)
    areq                 \* the latest authenticated request: the access token
                         \* presented, the result, and whether the paired refresh
                         \* token had been rotated / logged out by then

svars == <<now, nTok, rtExp, storeUp, shared, local, cpc, ctok, cres,
           cagain, csame, rotIn, cnew, cout, outIn, warned, warnings,
           ioDown, hit, downIO, lres, acExp, areq>>

VARIABLES
    isRefreshing,        \* api.ts:28
    refreshSubscribers,  \* api.ts:29, sequence of the requests whose resolve is queued
    microtasks,          \* continuations released by cb(success), in order
    pc,                  \* position of each request's promise chain
    config,              \* the config object of each request (url, _skipAuthRedirect)
    retry,               \* config._retry
    aborted,             \* config.signal.aborted
    calls,               \* how many times api(config) was invoked for the request
    sends,               \* how many times the request was put on the wire
    error,               \* the error object held / rejected with
    part,                \* number of the refresh call the request took part in
    window,              \* number of refreshes completed when the 401 was handled
    refreshCalls,        \* POST /api/auth/refresh calls issued
    refreshInFlight,     \* refresh calls issued and not yet returned
    refreshDone,         \* refresh calls returned
    outcome,             \* outcome of each refresh call
    pathname,            \* window.location.pathname
    href                 \* pending assignment to window.location.href

VARIABLES
    user,                \* AuthContext.tsx:22, a User object or null
    isLoading,           \* AuthContext.tsx:23
    authPc,              \* position of the AuthProvider's async functions
    authReq,             \* the request the AuthProvider is awaiting (0: none)
    loginResult,         \* what the last login() call returned
    sessionLost          \* a refresh has failed and no identity check has
                         \* succeeded since

avars == <<user, isLoading, authPc, authReq, loginResult, sessionLost>>

cvars == <<isRefreshing, refreshSubscribers, microtasks, pc, config, retry,
          aborted, calls, sends, error, part, window, refreshCalls,
          refreshInFlight, refreshDone, outcome, pathname, href, avars>>

vars == <<cvars, svars>>

\* ---------------------------------------------------------------- helpers
MatchAt(s, p, i) ==
    \A k \in 1..Len(p) : s[i + k - 1] = p[k]

Includes(s, p) ==
    \E i \in 1..(Len(s) - Len(p) + 1) : MatchAt(s, p, i)

isAuthEndpoint_None(requestUrl) == FALSE

isAuthEndpoint(requestUrl) ==
    \E i \in DOMAIN SKIP_AUTH_REDIRECT : Includes(requestUrl, SKIP_AUTH_REDIRECT[i])

RECURSIVE encodeURIComponent(_)
encodeURIComponent(s) ==
    IF s = <<>> THEN <<>>
    ELSE (IF Head(s) = "/" THEN <<"%", "2", "F">> ELSE <<Head(s)>>)
             \o encodeURIComponent(Tail(s))

LoginRedirect(currentPath) ==
    <<"/", "login", "?", "redirect", "=">> \o encodeURIComponent(currentPath)

hrefAfterFailure_IgnoreFlag(r, h) ==
    IF pathname # LoginPath THEN LoginRedirect(pathname) ELSE h

hrefAfterFailure_ByReason(r, h) ==
    IF config[r].skip = TRUE \/ outcome[part[r]] = "Reused" THEN h
    ELSE IF pathname # LoginPath THEN LoginRedirect(pathname) ELSE h

\* the href after handleRefreshFailure(config of r)
hrefAfterFailure(r, h) ==
    IF config[r].skip = TRUE THEN h
    ELSE IF pathname # LoginPath THEN LoginRedirect(pathname) ELSE h

\* AuthContext.tsx:5-9, 22: the values of  user: User | null
Null == [type |-> "null"]
UserData == [type |-> "object"]

ClientInit ==
    /\ isRefreshing = FALSE
    /\ refreshSubscribers = <<>>
    /\ microtasks = <<>>
    /\ pc = [r \in Reqs |-> "new"]
    /\ config = [r \in Reqs |-> [url |-> PostsUrl, skip |-> FALSE]]
    /\ retry = [r \in Reqs |-> FALSE]
    /\ aborted = [r \in Reqs |-> FALSE]
    /\ calls = [r \in Reqs |-> 0]
    /\ sends = [r \in Reqs |-> 0]
    /\ error = [r \in Reqs |-> NoError]
    /\ part = [r \in Reqs |-> 0]
    /\ window = [r \in Reqs |-> -1]
    /\ refreshCalls = 0
    /\ refreshInFlight = 0
    /\ refreshDone = 0
    /\ outcome = [e \in Reqs |-> "none"]
    /\ pathname \in Paths
    /\ href = <<>>
    /\ user = Null
    /\ isLoading = TRUE
    /\ authPc = "mount"
    /\ authReq = 0
    /\ loginResult = "none"
    /\ sessionLost = FALSE

\* ------------------------------------------------------------ server side
Max(a, b) == IF a >= b THEN a ELSE b

\* which store an I/O call made now reaches: 0 is the shared store, 1 the
\* process-local store the component degrades to
StoreId == IF storeUp THEN 0 ELSE 1

StoreOf_SharedOnly(k) == shared

StoreOf(k) == IF k = 0 THEN shared ELSE local

Contains_WrongKey(k, id) == FALSE

Contains_Always(k, id) == TRUE

\* Revocation Store contains(token_id)
Contains(k, id) == StoreOf(k)[id] # 0 /\ now <= StoreOf(k)[id]

RemainingLifetime_Fixed(t) == 0

RemainingLifetime_Full(t) == RefreshTtl

\* Revocation Entry ttl: the remaining lifetime of the token
RemainingLifetime(t) == rtExp[t] - now

PutEntry_Dropped(store, id, ttl) == store

\* Revocation Store put(token_id, ttl): never shortens visibility
PutEntry(store, id, ttl) == [store EXCEPT ![id] = Max(@, now + ttl)]

Verify_NoExpiry(t) == IF t = 0 THEN "Invalid" ELSE "Ok"

\* Token Codec parse_and_verify on a refresh token: 0 stands for a raw value
\* that is malformed or badly signed
Verify(t) ==
    IF t = 0 THEN "Invalid"
    ELSE IF now > rtExp[t] + Skew THEN "Expired"
    ELSE "Ok"

AccessCheck_WithStore(a) ==
    IF acExp[a] = -1 THEN "Invalid"
    ELSE IF now > acExp[a] + Skew THEN "Expired"
    ELSE IF a # 0 /\ Contains(StoreId, a) THEN "Revoked"
    ELSE "Ok"

\* Token Codec parse_and_verify on an access token, as done on every
\* authenticated request: signature and expiry, no Revocation Store lookup
AccessCheck(a) ==
    IF acExp[a] = -1 THEN "Invalid"
    ELSE IF now > acExp[a] + Skew THEN "Expired"
    ELSE "Ok"

WarningsAfterIO_PerRequest == IF storeUp THEN warnings ELSE warnings + 1

\* a store call that finds the shared store unreachable logs the degradation
\* unless it has been logged for this outage
WarningsAfterIO == IF ~storeUp /\ ~warned THEN warnings + 1 ELSE warnings

\* one contains() or put() of the Revocation Store
StoreIO ==
    /\ warnings' = WarningsAfterIO
    /\ warned' = (warned \/ ~storeUp)
    /\ hit' = (IF ~storeUp /\ ~ioDown THEN hit + 1 ELSE hit)
    /\ ioDown' = (ioDown \/ ~storeUp)
    /\ downIO' = (IF storeUp THEN downIO ELSE downIO + 1)

NoStoreIO == UNCHANGED <<warned, warnings, ioDown, hit, downIO>>

ServerInit ==
    /\ now = 0
    /\ nTok = 0
    /\ rtExp = [t \in Toks |-> 0]
    /\ storeUp = TRUE
    /\ shared = [t \in Toks |-> 0]
    /\ local = [t \in Toks |-> 0]
    /\ cpc = [c \in RotCalls |-> "idle"]
    /\ ctok = [c \in RotCalls |-> 0]
    /\ cres = [c \in RotCalls |-> "none"]
    /\ cagain = [c \in RotCalls |-> FALSE]
    /\ csame = [c \in RotCalls |-> FALSE]
    /\ rotIn = [t \in Toks |-> -1]
    /\ cnew = [c \in RotCalls |-> 0]
    /\ cout = [c \in RotCalls |-> FALSE]
    /\ outIn = [t \in Toks |-> -1]
    /\ warned = FALSE
    /\ warnings = 0
    /\ ioDown = FALSE
    /\ hit = 0
    /\ downIO = 0
    /\ lres = "none"
    /\ acExp = [a \in Accs |-> -1]
    /\ areq = [tok |-> -1, res |-> "none", rotated |-> FALSE, loggedOut |-> FALSE]

IssuesRefresh_Always(valid, persistent) == valid

\* login(): a refresh token is issued only for a verified identity that
\* asked for a persistent session
IssuesRefresh(valid, persistent) == valid /\ persistent

\* login(credentials): InvalidCredentials on a mismatch; otherwise one access
\* token and, for a persistent session, one refresh token.  One session is
\* followed: its first tokens come from the login, the later ones from
\* rotate().
Login(valid, persistent) ==
    /\ lres = "none"
    /\ lres' = (IF valid THEN "Tokens" ELSE "InvalidCredentials")
    /\ IF IssuesRefresh(valid, persistent)
       THEN /\ nTok' = nTok + 1
            /\ rtExp' = [rtExp EXCEPT ![nTok + 1] = now + RefreshTtl]
       ELSE UNCHANGED <<nTok, rtExp>>
    /\ acExp' = (IF ~valid THEN acExp
                 ELSE IF IssuesRefresh(valid, persistent)
                      THEN [acExp EXCEPT ![nTok + 1] = now + AccessTtl]
                      ELSE [acExp EXCEPT ![0] = now + AccessTtl])
    /\ UNCHANGED <<now, storeUp, shared, local, cpc, ctok, cres, cagain, csame, rotIn,
                   cnew, cout, outIn, areq>>
    /\ NoStoreIO
    /\ UNCHANGED cvars

\* rotate() step 1: parse and verify the presented refresh token
RotateVerify(c, t) ==
    /\ cpc[c] = "idle"
    /\ t <= nTok
    /\ \A d \in RotCalls : d < c => cpc[d] # "idle"
    /\ ctok' = [ctok EXCEPT ![c] = t]
    /\ IF Verify(t) = "Ok"
       THEN /\ cpc' = [cpc EXCEPT ![c] = "verified"]
            /\ cagain' = [cagain EXCEPT ![c] = rotIn[t] # -1]
            /\ cout' = [cout EXCEPT ![c] = outIn[t] # -1]
            /\ cres' = cres
       ELSE /\ cpc' = [cpc EXCEPT ![c] = "done"]
            /\ cres' = [cres EXCEPT ![c] = Verify(t)]
            /\ UNCHANGED <<cagain, cout>>
    /\ UNCHANGED <<now, nTok, rtExp, storeUp, shared, local, csame, rotIn, cnew, outIn>>
    /\ NoStoreIO
    /\ UNCHANGED <<lres, acExp, areq>>
    /\ UNCHANGED cvars

\* rotate() step 2: the store read
RotateCheck(c) ==
    /\ cpc[c] = "verified"
    /\ csame' = [csame EXCEPT ![c] =
                    rotIn[ctok[c]] = StoreId /\ now <= rtExp[ctok[c]]]
    /\ IF Contains(StoreId, ctok[c])
       THEN /\ cpc' = [cpc EXCEPT ![c] = "done"]
            /\ cres' = [cres EXCEPT ![c] = "Reused"]
       ELSE /\ cpc' = [cpc EXCEPT ![c] = "checked"]
            /\ cres' = cres
    /\ UNCHANGED <<now, nTok, rtExp, storeUp, shared, local, ctok, cagain, rotIn,
                   cnew, cout, outIn>>
    /\ StoreIO
    /\ UNCHANGED <<lres, acExp, areq>>
    /\ UNCHANGED cvars

\* rotate() steps 3 and 4: issue the new pair, revoke the old token id with
\* ttl = its remaining lifetime (the store write), return the pair
RotateIssue(c) ==
    /\ cpc[c] = "checked"
    /\ nTok < MaxTok
    /\ nTok' = nTok + 1
    /\ rtExp' = [rtExp EXCEPT ![nTok + 1] = now + RefreshTtl]
    /\ IF StoreId = 0
       THEN /\ shared' = PutEntry(shared, ctok[c], RemainingLifetime(ctok[c]))
            /\ local' = local
       ELSE /\ local' = PutEntry(local, ctok[c], RemainingLifetime(ctok[c]))
            /\ shared' = shared
    /\ rotIn' = [rotIn EXCEPT ![ctok[c]] = IF @ = -1 THEN StoreId ELSE @]
    /\ cpc' = [cpc EXCEPT ![c] = "done"]
    /\ cres' = [cres EXCEPT ![c] = "Pair"]
    /\ cnew' = [cnew EXCEPT ![c] = nTok + 1]
    /\ UNCHANGED <<now, storeUp, ctok, cagain, csame, cout, outIn>>
    /\ StoreIO
    /\ acExp' = [acExp EXCEPT ![nTok + 1] = now + AccessTtl]
    /\ UNCHANGED <<lres, areq>>
    /\ UNCHANGED cvars

LogoutResult_Strict(t) == IF Verify(t) = "Ok" THEN "LoggedOut" ELSE Verify(t)

\* what logout() returns: success, whatever the token
LogoutResult(t) == "LoggedOut"

\* logout(refresh_raw): revoke the presented token's id with ttl = its
\* remaining lifetime (a raw value that does not parse has no id to revoke);
\* best effort, always succeeds
Logout(c, t) ==
    /\ cpc[c] = "idle"
    /\ t <= nTok
    /\ \A d \in RotCalls : d < c => cpc[d] # "idle"
    /\ ctok' = [ctok EXCEPT ![c] = t]
    /\ cpc' = [cpc EXCEPT ![c] = "done"]
    /\ cres' = [cres EXCEPT ![c] = LogoutResult(t)]
    /\ IF t = 0
       THEN /\ UNCHANGED <<shared, local, outIn, cagain, cout>>
            /\ NoStoreIO
       ELSE /\ StoreIO
            /\ IF StoreId = 0
               THEN /\ shared' = PutEntry(shared, t, RemainingLifetime(t))
                    /\ local' = local
               ELSE /\ local' = PutEntry(local, t, RemainingLifetime(t))
                    /\ shared' = shared
            /\ outIn' = [outIn EXCEPT ![t] = IF @ = -1 THEN StoreId ELSE @]
            /\ cagain' = [cagain EXCEPT ![c] = rotIn[t] # -1]
            /\ cout' = [cout EXCEPT ![c] = outIn[t] # -1]
    /\ UNCHANGED <<now, nTok, rtExp, storeUp, csame, rotIn, cnew>>
    /\ UNCHANGED <<lres, acExp, areq>>
    /\ UNCHANGED cvars

\* an authenticated request presenting access token a
Authenticate(a) ==
    /\ areq' = [tok |-> a,
                res |-> IF AccessCheck(a) = "Ok" THEN "Authenticated"
                                                 ELSE "Unauthenticated",
                rotated |-> a # 0 /\ rotIn[a] # -1,
                loggedOut |-> a # 0 /\ outIn[a] # -1]
    /\ UNCHANGED <<now, nTok, rtExp, storeUp, shared, local, cpc, ctok, cres,
                   cagain, csame, rotIn, cnew, cout, outIn, lres, acExp>>
    /\ NoStoreIO
    /\ UNCHANGED cvars

Tick ==
    /\ now < MaxTime
    /\ now' = now + 1
    /\ UNCHANGED <<nTok, rtExp, storeUp, shared, local, cpc, ctok, cres,
                   cagain, csame, rotIn, cnew, cout, outIn>>
    /\ NoStoreIO
    /\ UNCHANGED <<lres, acExp, areq>>
    /\ UNCHANGED cvars

\* the shared store becomes unreachable / reachable again; an outage ends
\* when the store is reachable again, and so does the degraded mode
StoreFail ==
    /\ storeUp
    /\ storeUp' = FALSE
    /\ UNCHANGED <<now, nTok, rtExp, shared, local, cpc, ctok, cres,
                   cagain, csame, rotIn, cnew, cout, outIn>>
    /\ NoStoreIO
    /\ UNCHANGED <<lres, acExp, areq>>
    /\ UNCHANGED cvars

StoreRecover ==
    /\ ~storeUp
    /\ storeUp' = TRUE
    /\ warned' = FALSE
    /\ ioDown' = FALSE
    /\ UNCHANGED <<now, nTok, rtExp, shared, local, cpc, ctok, cres,
                   cagain, csame, rotIn, cnew, cout, outIn, warnings, hit, downIO>>
    /\ UNCHANGED <<lres, acExp, areq>>
    /\ UNCHANGED cvars

ServerNext ==
    \/ \E valid \in BOOLEAN, persistent \in BOOLEAN : Login(valid, persistent)
    \/ \E c \in RotCalls, t \in 0..MaxTok : RotateVerify(c, t)
    \/ \E c \in RotCalls : RotateCheck(c)
    \/ \E c \in RotCalls : RotateIssue(c)
    \/ \E c \in RotCalls, t \in 0..MaxTok : Logout(c, t)
    \/ Tick
    \/ StoreFail
    \/ StoreRecover

Init == ClientInit /\ ServerInit

ServerStart == Init /\ pathname = EditorPath

ServerSpec == ServerStart /\ [][ServerNext]_vars

\* the session's calls and its authenticated requests, with the shared store
\* reachable throughout
AccessNext ==
    \/ \E valid \in BOOLEAN, persistent \in BOOLEAN : Login(valid, persistent)
    \/ \E c \in RotCalls, t \in 0..MaxTok : RotateVerify(c, t)
    \/ \E c \in RotCalls : RotateCheck(c)
    \/ \E c \in RotCalls : RotateIssue(c)
    \/ \E c \in RotCalls, t \in 0..MaxTok : Logout(c, t)
    \/ \E a \in Accs : Authenticate(a)
    \/ Tick

AccessSpec == ServerStart /\ [][AccessNext]_vars

\* ------------------------------------------------------- request plumbing
\* api(config): axios throws CanceledError before the adapter when
\* config.signal is already aborted, otherwise the request goes on the wire.
ApiPc(r) == IF aborted[r] THEN "rejected" ELSE "sent"
ApiSends(r) == IF aborted[r] THEN sends[r] ELSE sends[r] + 1
ApiError(r) == IF aborted[r] THEN Canceled ELSE error[r]

PassThrough_NoRetryCheck(r) == isAuthEndpoint(config[r].url)

PassThrough_Never(r) == FALSE

\* api.ts:55  isAuthEndpoint || originalRequest?._retry
PassThrough(r) == isAuthEndpoint(config[r].url) \/ retry[r]

FlagAfterStart_NotSet == FALSE

\* api.ts:71  isRefreshing = true
FlagAfterStart == TRUE

FlagAfterSuccess_Stuck == TRUE

\* api.ts:78  isRefreshing = false
FlagAfterSuccess == FALSE

FlagAfterFailure_Stuck == TRUE

\* api.ts:86  isRefreshing = false
FlagAfterFailure == FALSE

Released_AlwaysTrue(success) ==
    [i \in 1..Len(refreshSubscribers) |->
        [req |-> refreshSubscribers[i], success |-> TRUE]]

Released_Twice(success) ==
    [i \in 1..Len(refreshSubscribers) |->
        [req |-> refreshSubscribers[i], success |-> success]]
    \o [i \in 1..Len(refreshSubscribers) |->
        [req |-> refreshSubscribers[i], success |-> success]]

\* api.ts:32-35  onRefreshComplete(success): every queued resolve is called
\* (its continuation becomes a microtask) and the list is emptied.
Released(success) ==
    [i \in 1..Len(refreshSubscribers) |->
        [req |-> refreshSubscribers[i], success |-> success]]

SubscribersAfterComplete_Kept == refreshSubscribers

\* api.ts:34  refreshSubscribers = []
SubscribersAfterComplete == <<>>

SubscribersAfterWait_NoPush(r) == refreshSubscribers

\* api.ts:38-42  waitForRefresh(): push the continuation
SubscribersAfterWait(r) == Append(refreshSubscribers, r)

\* api(config) for a new request: it goes on the wire
Issue(r, cfg) ==
    /\ microtasks = <<>>
    /\ pc[r] = "new"
    /\ \A q \in Reqs : q < r => pc[q] # "new"
    /\ pc' = [pc EXCEPT ![r] = "sent"]
    /\ config' = [config EXCEPT ![r] = cfg]
    /\ calls' = [calls EXCEPT ![r] = 1]
    /\ sends' = [sends EXCEPT ![r] = 1]
    /\ UNCHANGED <<isRefreshing, refreshSubscribers, microtasks, retry, aborted,
                   error, part, window, refreshCalls, refreshInFlight,
                   refreshDone, outcome, pathname, href>>

\* a component starts a request through the api instance
Request(r, cfg) ==
    /\ Issue(r, cfg)
    /\ UNCHANGED <<svars, avars>>

\* api.ts:46  (response) => response
OnFulfilled(r) ==
    /\ UNCHANGED <<svars, avars>>
    /\ microtasks = <<>>
    /\ pc[r] = "sent"
    /\ pc' = [pc EXCEPT ![r] = "ok"]
    /\ UNCHANGED <<isRefreshing, refreshSubscribers, microtasks, config, retry,
                   aborted, calls, sends, error, part, window, refreshCalls,
                   refreshInFlight, refreshDone, outcome, pathname, href>>

\* api.ts:47-57 and 93: an error that is not an eligible 401 is rejected as is
OnRejectedPass(r, status) ==
    /\ UNCHANGED <<svars, avars>>
    /\ microtasks = <<>>
    /\ pc[r] = "sent"
    /\ status # 200
    /\ status # 401 \/ PassThrough(r)
    /\ pc' = [pc EXCEPT ![r] = "rejected"]
    /\ error' = [error EXCEPT ![r] = [status |-> status, attempt |-> sends[r]]]
    /\ UNCHANGED <<isRefreshing, refreshSubscribers, microtasks, config, retry,
                   aborted, calls, sends, part, window, refreshCalls, refreshInFlight,
                   refreshDone, outcome, pathname, href>>

\* api.ts:60-61: a refresh is in flight, the request waits for its result
OnRejectedWait(r) ==
    /\ UNCHANGED <<svars, avars>>
    /\ microtasks = <<>>
    /\ pc[r] = "sent"
    /\ ~PassThrough(r)
    /\ isRefreshing
    /\ refreshSubscribers' = SubscribersAfterWait(r)
    /\ pc' = [pc EXCEPT ![r] = "waiting"]
    /\ error' = [error EXCEPT ![r] = [status |-> 401, attempt |-> sends[r]]]
    /\ part' = [part EXCEPT ![r] = refreshCalls]
    /\ window' = [window EXCEPT ![r] = refreshDone]
    /\ UNCHANGED <<isRefreshing, microtasks, config, retry, aborted, calls, sends,
                   refreshCalls, refreshInFlight, refreshDone, outcome,
                   pathname, href>>

\* api.ts:70-76: no refresh in flight, the request starts one
OnRejectedStart(r) ==
    /\ UNCHANGED <<svars, avars>>
    /\ microtasks = <<>>
    /\ pc[r] = "sent"
    /\ ~PassThrough(r)
    /\ ~isRefreshing
    /\ isRefreshing' = FlagAfterStart
    /\ refreshCalls' = refreshCalls + 1
    /\ refreshInFlight' = refreshInFlight + 1
    /\ pc' = [pc EXCEPT ![r] = "initiator"]
    /\ error' = [error EXCEPT ![r] = [status |-> 401, attempt |-> sends[r]]]
    /\ part' = [part EXCEPT ![r] = refreshCalls + 1]
    /\ window' = [window EXCEPT ![r] = refreshDone]
    /\ UNCHANGED <<refreshSubscribers, microtasks, config, retry, aborted, calls, sends,
                   refreshDone, outcome, pathname, href>>

\* api.ts:78-83: the refresh call returned successfully
RefreshSucceeded(r) ==
    /\ UNCHANGED <<svars, avars>>
    /\ microtasks = <<>>
    /\ pc[r] = "initiator"
    /\ isRefreshing' = FlagAfterSuccess
    /\ microtasks' = Released(TRUE)
    /\ refreshSubscribers' = SubscribersAfterComplete
    /\ pc' = [q \in Reqs |->
                IF q = r THEN ApiPc(r)
                ELSE IF \E i \in 1..Len(refreshSubscribers) : refreshSubscribers[i] = q
                     THEN "resumed" ELSE pc[q]]
    /\ retry' = [retry EXCEPT ![r] = TRUE]
    /\ calls' = [calls EXCEPT ![r] = calls[r] + 1]
    /\ sends' = [sends EXCEPT ![r] = ApiSends(r)]
    /\ error' = [error EXCEPT ![r] = ApiError(r)]
    /\ refreshInFlight' = refreshInFlight - 1
    /\ refreshDone' = refreshDone + 1
    /\ outcome' = [outcome EXCEPT ![part[r]] = "ok"]
    /\ UNCHANGED <<config, aborted, part, window, refreshCalls, pathname, href>>

\* api.ts:84-90 and 98-109: the refresh call failed (error response, network
\* error or timeout, all of which make axios.post reject)
RefreshFailed(r, kind) ==
    /\ UNCHANGED svars
    /\ sessionLost' = TRUE
    /\ UNCHANGED <<user, isLoading, authPc, authReq, loginResult>>
    /\ microtasks = <<>>
    /\ pc[r] = "initiator"
    /\ isRefreshing' = FlagAfterFailure
    /\ microtasks' = Released(FALSE)
    /\ refreshSubscribers' = SubscribersAfterComplete
    /\ pc' = [q \in Reqs |->
                IF q = r THEN "rejected"
                ELSE IF \E i \in 1..Len(refreshSubscribers) : refreshSubscribers[i] = q
                     THEN "resumed" ELSE pc[q]]
    /\ href' = hrefAfterFailure(r, href)
    /\ refreshInFlight' = refreshInFlight - 1
    /\ refreshDone' = refreshDone + 1
    /\ outcome' = [outcome EXCEPT ![part[r]] = kind]
    /\ UNCHANGED <<config, retry, aborted, calls, sends, error, part, window,
                   refreshCalls, pathname>>

\* api.ts:61-67: the continuation of a waiter, run as a microtask
ResumeWaiter ==
    /\ UNCHANGED <<svars, avars>>
    /\ microtasks # <<>>
    /\ LET w == Head(microtasks).req
           success == Head(microtasks).success
       IN  /\ microtasks' = Tail(microtasks)
           /\ IF success
              THEN /\ retry' = [retry EXCEPT ![w] = TRUE]
                   /\ pc' = [pc EXCEPT ![w] = ApiPc(w)]
                   /\ calls' = [calls EXCEPT ![w] = calls[w] + 1]
                   /\ sends' = [sends EXCEPT ![w] = ApiSends(w)]
                   /\ error' = [error EXCEPT ![w] = ApiError(w)]
                   /\ href' = href
              ELSE /\ pc' = [pc EXCEPT ![w] = "rejected"]
                   /\ href' = hrefAfterFailure(w, href)
                   /\ UNCHANGED <<retry, calls, sends, error>>
    /\ UNCHANGED <<isRefreshing, refreshSubscribers, config, aborted, part,
                   window, refreshCalls, refreshInFlight, refreshDone, outcome,
                   pathname>>

\* the caller aborts the request's AbortController (boardLayout.tsx:27-40 etc.)
\* A request on the wire is rejected by axios with CanceledError; the
\* interceptor has no handling for a request that is already past its 401.
Abort(r) ==
    /\ UNCHANGED <<svars, avars>>
    /\ microtasks = <<>>
    /\ pc[r] \in {"sent", "waiting", "initiator"}
    /\ ~aborted[r]
    /\ Cardinality({q \in Reqs : aborted[q]}) < MaxAbort
    /\ aborted' = [aborted EXCEPT ![r] = TRUE]
    /\ IF pc[r] = "sent"
       THEN /\ pc' = [pc EXCEPT ![r] = "rejected"]
            /\ error' = [error EXCEPT ![r] = Canceled]
       ELSE UNCHANGED <<pc, error>>
    /\ UNCHANGED <<isRefreshing, refreshSubscribers, microtasks, config, retry,
                   calls, sends, part, window, refreshCalls, refreshInFlight,
                   refreshDone, outcome, pathname, href>>

Next ==
    \/ \E r \in Reqs, cfg \in Configs : Request(r, cfg)
    \/ \E r \in Reqs : OnFulfilled(r)
    \/ \E r \in Reqs, status \in Statuses : OnRejectedPass(r, status)
    \/ \E r \in Reqs : OnRejectedWait(r)
    \/ \E r \in Reqs : OnRejectedStart(r)
    \/ \E r \in Reqs : RefreshSucceeded(r)
    \/ \E r \in Reqs, kind \in FailKinds : RefreshFailed(r, kind)
    \/ ResumeWaiter
    \/ \E r \in Reqs : Abort(r)

Spec == Init /\ [][Next]_vars

\* responses, refresh results and released continuations are always
\* delivered: the event loop runs every task that is ready
FairSpec ==
    /\ Spec
    /\ \A r \in Reqs :
          /\ WF_vars(OnFulfilled(r) \/ OnRejectedWait(r) \/ OnRejectedStart(r)
                       \/ \E status \in Statuses : OnRejectedPass(r, status))
          /\ WF_vars(RefreshSucceeded(r)
                       \/ \E kind \in FailKinds : RefreshFailed(r, kind))
    /\ WF_vars(ResumeWaiter)

\* ------------------------------------------------------------ AuthContext
\* The AuthProvider's async functions (initAuth, login, logout).  Each awaits
\* one request at a time through the api instance; one of them runs at a time.
MeConfig == [url |-> <<"api", "auth", "me">>, skip |-> FALSE]
LoginConfig_NotExempt == [url |-> PostsUrl, skip |-> FALSE]

LoginConfig == [url |-> <<"api", "auth", "login">>, skip |-> FALSE]
LogoutConfig == [url |-> <<"api", "auth", "logout">>, skip |-> FALSE]

\* the promise of request r has been consumed by its awaiter; with p = "sent"
\* the awaiter goes on to call api(cfg)
Consume(r, p, cfg) ==
    /\ pc' = [pc EXCEPT ![r] = p]
    /\ config' = [config EXCEPT ![r] = cfg]
    /\ retry' = [retry EXCEPT ![r] = FALSE]
    /\ aborted' = [aborted EXCEPT ![r] = FALSE]
    /\ calls' = [calls EXCEPT ![r] = IF p = "sent" THEN 1 ELSE 0]
    /\ sends' = [sends EXCEPT ![r] = IF p = "sent" THEN 1 ELSE 0]
    /\ error' = [error EXCEPT ![r] = NoError]
    /\ part' = [part EXCEPT ![r] = 0]
    /\ window' = [window EXCEPT ![r] = -1]
    /\ UNCHANGED <<isRefreshing, refreshSubscribers, microtasks, refreshCalls,
                   refreshInFlight, refreshDone, outcome, pathname, href>>

Idle == [url |-> PostsUrl, skip |-> FALSE]

\* AuthContext.tsx:26-30 and 41: the mount effect calls initAuth()
InitAuthStart(r) ==
    /\ UNCHANGED svars
    /\ authPc = "mount"
    /\ Issue(r, MeConfig)
    /\ authPc' = "init_me"
    /\ authReq' = r
    /\ UNCHANGED <<user, isLoading, loginResult, sessionLost>>

\* AuthContext.tsx:31-38: setUser on success, the error is swallowed,
\* setIsLoading(false) in either case
InitAuthDone ==
    /\ UNCHANGED svars
    /\ microtasks = <<>>
    /\ authPc = "init_me"
    /\ pc[authReq] \in {"ok", "rejected"}
    /\ user' = (IF pc[authReq] = "ok" THEN UserData ELSE user)
    /\ sessionLost' = (IF pc[authReq] = "ok" THEN FALSE ELSE sessionLost)
    /\ isLoading' = FALSE
    /\ authPc' = "idle"
    /\ authReq' = 0
    /\ loginResult' = loginResult
    /\ Consume(authReq, "new", Idle)

\* AuthContext.tsx:43-49: login() posts the credentials
LoginStart(r) ==
    /\ UNCHANGED svars
    /\ authPc = "idle"
    /\ Issue(r, LoginConfig)
    /\ authPc' = "login_post"
    /\ authReq' = r
    /\ loginResult' = "pending"
    /\ UNCHANGED <<user, isLoading, sessionLost>>

\* AuthContext.tsx:46-52 and 58-61: after the post, GET /api/auth/me; a
\* rejected post is caught and login() returns false
LoginPosted ==
    /\ UNCHANGED svars
    /\ microtasks = <<>>
    /\ authPc = "login_post"
    /\ pc[authReq] \in {"ok", "rejected"}
    /\ IF pc[authReq] = "ok"
       THEN /\ Consume(authReq, "sent", MeConfig)
            /\ authPc' = "login_me"
            /\ UNCHANGED <<authReq, loginResult>>
       ELSE /\ Consume(authReq, "new", Idle)
            /\ authPc' = "idle"
            /\ authReq' = 0
            /\ loginResult' = "false"
    /\ UNCHANGED <<user, isLoading, sessionLost>>

\* AuthContext.tsx:52-61: setUser and return true, or catch and return false
LoginDone ==
    /\ UNCHANGED svars
    /\ microtasks = <<>>
    /\ authPc = "login_me"
    /\ pc[authReq] \in {"ok", "rejected"}
    /\ user' = (IF pc[authReq] = "ok" THEN UserData ELSE user)
    /\ sessionLost' = (IF pc[authReq] = "ok" THEN FALSE ELSE sessionLost)
    /\ loginResult' = (IF pc[authReq] = "ok" THEN "true" ELSE "false")
    /\ authPc' = "idle"
    /\ authReq' = 0
    /\ isLoading' = isLoading
    /\ Consume(authReq, "new", Idle)

\* AuthContext.tsx:64-67: logout() posts to /api/auth/logout
LogoutStart(r) ==
    /\ UNCHANGED svars
    /\ authPc = "idle"
    /\ Issue(r, LogoutConfig)
    /\ authPc' = "logout_post"
    /\ authReq' = r
    /\ UNCHANGED <<user, isLoading, loginResult, sessionLost>>

\* AuthContext.tsx:68-72: the error is logged, setUser(null) in either case
LogoutDone ==
    /\ UNCHANGED svars
    /\ microtasks = <<>>
    /\ authPc = "logout_post"
    /\ pc[authReq] \in {"ok", "rejected"}
    /\ user' = Null
    /\ authPc' = "idle"
    /\ authReq' = 0
    /\ UNCHANGED <<isLoading, loginResult, sessionLost>>
    /\ Consume(authReq, "new", Idle)

isAuthenticated_Always == TRUE

\* AuthContext.tsx:80  isAuthenticated: !!user
isAuthenticated == user.type \notin {"null", "undefined"}

AuthNext ==
    \/ Next
    \/ \E r \in Reqs : InitAuthStart(r)
    \/ InitAuthDone
    \/ \E r \in Reqs : LoginStart(r)
    \/ LoginPosted
    \/ LoginDone
    \/ \E r \in Reqs : LogoutStart(r)
    \/ LogoutDone

AuthSpec == Init /\ [][AuthNext]_vars

\* ---------------------------------------------------------- vocabulary
InQueue(r) == \E i \in 1..Len(refreshSubscribers) : refreshSubscribers[i] = r

Resuming(r) == \E i \in 1..Len(microtasks) : microtasks[i].req = r

Settled(r) == pc[r] \in {"ok", "rejected"}

Participant(r) == part[r] # 0

Succeeded(e) == outcome[e] = "ok"

Failed(e) == outcome[e] \in FailKinds \cup RefusalReasons

Original401 == [status |-> 401, attempt |-> 1]

AtEventLoop == microtasks = <<>>

\* ------------------------------------------------------------------ C1
\* C1: requests whose eligible 401s are handled with no refresh completing in
\* between (the same window) all take part in one and the same refresh call,
\* the number of refresh calls issued equals the number of such windows, and
\* eventually every request that was started is settled for good.
C1_OneCallPerWindow ==
    /\ \A r1, r2 \in Reqs :
          (window[r1] # -1 /\ window[r1] = window[r2]) =>
              (part[r1] = part[r2] /\ part[r1] = window[r1] + 1)
    /\ refreshCalls = Cardinality({window[r] : r \in Reqs} \ {-1})

C1_SingleRefreshAllResolve ==
    /\ []C1_OneCallPerWindow
    /\ <>[](\A r \in Reqs : pc[r] = "new" \/ Settled(r))

C1_Witness ==
    /\ \A r \in Reqs : window[r] = 0 /\ part[r] = 1 /\ Settled(r)
    /\ refreshCalls = 1

\* ------------------------------------------------------------------ C2
\* C2: at most one refresh call is outstanding, the flag says exactly whether
\* one is, and a step that handles a 401 while the flag is set queues the
\* request and issues no refresh call.
C2_AtMostOneOutstanding ==
    /\ refreshInFlight <= 1
    /\ isRefreshing <=> refreshInFlight = 1
    /\ Cardinality({r \in Reqs : pc[r] = "initiator"}) = refreshInFlight

C2_JoinStep ==
    \A r \in Reqs :
        (isRefreshing /\ pc[r] = "sent" /\ pc'[r] \in {"waiting", "initiator"}) =>
            /\ pc'[r] = "waiting"
            /\ refreshCalls' = refreshCalls
            /\ refreshInFlight' = refreshInFlight
            /\ refreshSubscribers' = Append(refreshSubscribers, r)

C2_SingleFlight == []C2_AtMostOneOutstanding /\ [][C2_JoinStep]_vars

C2_Witness ==
    /\ isRefreshing
    /\ refreshInFlight = 1
    /\ \E r \in Reqs : pc[r] = "waiting" /\ InQueue(r)

\* ------------------------------------------------------------------ C3
\* C3 as stated: a rotate() call that begins after the token was rotated and
\* reaches the issuing step no later than the token's expires_at does not
\* return a new pair.
C3_ReuseStep ==
    \A c \in RotCalls :
        (cagain[c] /\ cpc[c] = "checked" /\ now <= rtExp[ctok[c]]) =>
            cres'[c] # "Pair"

C5_RetryOnceAfterSuccess ==
    /\ \A r \in Reqs :
          (Participant(r) /\ Succeeded(part[r])) =>
              /\ ~InQueue(r)
              /\ pc[r] \notin {"waiting", "initiator"}
              /\ IF Resuming(r) THEN pc[r] = "resumed" /\ calls[r] = 1
                 ELSE retry[r] /\ calls[r] = 2
    /\ \A r \in Reqs :
          /\ calls[r] <= 2
          /\ sends[r] <= calls[r]
          /\ (calls[r] = 2 \/ retry[r]) =>
                (retry[r] /\ calls[r] = 2 /\ Participant(r) /\ Succeeded(part[r]))
    /\ (refreshCalls > 0 /\ refreshDone = refreshCalls /\ Succeeded(refreshCalls)) =>
          (~isRefreshing /\ refreshSubscribers = <<>>)

C5_Witness ==
    /\ AtEventLoop
    /\ \A r \in Reqs : part[r] = 1 /\ retry[r] /\ calls[r] = 2 /\ sends[r] = 2
    /\ Succeeded(1)
    /\ ~isRefreshing

\* ------------------------------------------------------------------ C6
\* C6: a request with _retry set is never queued, never waits and never
\* starts a refresh; the step that handles its second 401 rejects it with
\* that 401 and leaves flag, queue and refresh calls as they were.
C6_RetriedStaysOut ==
    \A r \in Reqs :
        retry[r] => (pc[r] \in {"sent", "ok", "rejected"} /\ ~InQueue(r) /\ ~Resuming(r))

C6_SecondFailureStep ==
    \A r \in Reqs :
        (retry[r] /\ pc[r] = "sent" /\ pc'[r] # "sent") =>
            /\ pc'[r] \in {"ok", "rejected"}
            /\ UNCHANGED <<isRefreshing, refreshSubscribers, refreshCalls,
                           refreshInFlight, part, retry>>
            /\ pc'[r] = "rejected" =>
                  (error'[r] = Canceled \/ error'[r].attempt = 2)

C6_NoSecondCycle == []C6_RetriedStaysOut /\ [][C6_SecondFailureStep]_vars

C6_Witness ==
    \E r \in Reqs :
        /\ retry[r]
        /\ pc[r] = "rejected"
        /\ error[r] = [status |-> 401, attempt |-> 2]
        /\ isRefreshing

\* ------------------------------------------------------------------ C7
\* C7: once a refresh has failed, in whichever way, the flag is cleared and
\* the queue is empty; each participant is rejected with its own first 401
\* (a released waiter as soon as its continuation has run) and is never
\* re-issued.
C7_FailureRejectsAll ==
    /\ \A r \in Reqs :
          (Participant(r) /\ Failed(part[r])) =>
              /\ ~InQueue(r)
              /\ pc[r] = (IF Resuming(r) THEN "resumed" ELSE "rejected")
              /\ error[r] = Original401
              /\ calls[r] = 1
              /\ sends[r] = 1
              /\ ~retry[r]
    /\ (refreshCalls > 0 /\ refreshDone = refreshCalls /\ Failed(refreshCalls)) =>
          (~isRefreshing /\ refreshSubscribers = <<>>)

C7_Witness ==
    /\ AtEventLoop
    /\ outcome[1] = "timeout"
    /\ \A r \in Reqs : part[r] = 1 /\ pc[r] = "rejected" /\ error[r] = Original401

\* ------------------------------------------------------------------ C8
\* C8: whenever no refresh call is outstanding the flag is clear, so a fresh
\* request whose 401 arrives then can start a refresh of its own, whatever
\* refreshes failed or succeeded before.
C8_NoLockout ==
    /\ refreshInFlight = 0 => ~isRefreshing
    /\ \A r \in Reqs :
          (AtEventLoop /\ refreshInFlight = 0 /\ pc[r] = "sent" /\ ~retry[r]
             /\ ~isAuthEndpoint(config[r].url)) => ENABLED OnRejectedStart(r)

C8_Witness ==
    /\ refreshCalls = 2
    /\ Failed(1)
    /\ \E r \in Reqs : part[r] = 2 /\ pc[r] = "initiator"

\* ------------------------------------------------------------------ C9
\* C9: a request to /api/auth/login, /logout, /refresh or /me is never
\* queued, never takes part in a refresh and is never re-issued; the step
\* that handles its 401 rejects it with that 401 and leaves the coordinator
\* as it was.
C9_AuthStaysOut ==
    \A r \in Reqs :
        (pc[r] # "new" /\ config[r].url \in AuthUrls) =>
            /\ pc[r] \in {"sent", "ok", "rejected"}
            /\ ~InQueue(r)
            /\ part[r] = 0
            /\ ~retry[r]
            /\ calls[r] = 1

C9_AuthStep ==
    \A r \in Reqs :
        (config[r].url \in AuthUrls /\ pc[r] = "sent" /\ pc'[r] # "sent") =>
            UNCHANGED <<isRefreshing, refreshSubscribers, refreshCalls,
                        refreshInFlight>>

C9_AuthEndpointsExempt == []C9_AuthStaysOut /\ [][C9_AuthStep]_vars

C9_Witness ==
    \E r \in Reqs :
        /\ config[r].url = <<"api", "auth", "me">>
        /\ pc[r] = "rejected"
        /\ error[r] = Original401
        /\ isRefreshing

\* ----------------------------------------------------------------- C10
\* C10: a request whose caller aborted it is not in the wait queue (the
\* claim as stated; the interceptor never removes an entry).
C10_NoDanglingEntry ==
    \A r \in Reqs : aborted[r] => ~InQueue(r)

\* ----------------------------------------------------------------- C11
\* C11: a failed refresh leaves the location alone: whenever a refresh has
\* failed, no assignment to window.location.href has been made (the claim as
\* stated; handleRefreshFailure assigns it unless the request opted out).
C11_LocationUnchanged ==
    (\E e \in Reqs : Failed(e)) => href = <<>>

\* ----------------------------------------------------------------- C12
\* nothing is pending: no continuation, no request on the wire or waiting,
\* no AuthProvider function running, no navigation under way
Quiescent ==
    /\ AtEventLoop
    /\ authPc = "idle"
    /\ \A r \in Reqs : pc[r] \in {"new", "ok", "rejected"}
    /\ href = <<>>

\* C12: once a refresh has failed and everything it set off has run, the
\* AuthContext user is null unless an identity check has succeeded since
\* (the claim as stated; nothing in the interceptor reaches the AuthProvider).
C12_SessionEndReachesAuthState ==
    (sessionLost /\ Quiescent) => user = Null

\* ----------------------------------------------------------------- C13
\* a refresh token is revoked only by its own rotation or logout: a call is
\* answered Reused only for such a token, and a call that returned a pair
\* revoked the token it was given and left the one it issued without any
\* entry until that one is rotated or logged out itself
C13_OnlyOldRevoked ==
    /\ \A c \in RotCalls :
          cres[c] = "Reused" => (rotIn[ctok[c]] # -1 \/ outIn[ctok[c]] # -1)
    /\ \A c \in RotCalls :
          cres[c] = "Pair" =>
              /\ cnew[c] \in 1..nTok
              /\ cnew[c] # ctok[c]
              /\ rotIn[ctok[c]] # -1
              /\ (rotIn[cnew[c]] = -1 /\ outIn[cnew[c]] = -1) =>
                    (shared[cnew[c]] = 0 /\ local[cnew[c]] = 0)

C13_AgainStep ==
    \A c \in RotCalls :
        (cagain[c] /\ cpc[c] = "verified" /\ cpc'[c] # "verified"
           /\ now <= rtExp[ctok[c]]) => cres'[c] = "Reused"

C14_EntryAfterLogout ==
    \A t \in Toks :
        outIn[t] # -1 => (Contains(outIn[t], t) \/ now > rtExp[t])

C14_LaterRotateStep ==
    \A c \in RotCalls :
        (cout[c] /\ cpc[c] = "checked" /\ now <= rtExp[ctok[c]]) =>
            cres'[c] # "Pair"

C14_SameStoreStep ==
    \A c \in RotCalls :
        (cout[c] /\ cpc[c] = "verified" /\ cpc'[c] # "verified"
           /\ outIn[ctok[c]] = StoreId /\ now <= rtExp[ctok[c]]) =>
            cres'[c] = "Reused"

C15_LapsedEntryMeansExpired ==
    \A t \in Toks :
        /\ (rotIn[t] # -1 /\ ~Contains(rotIn[t], t)) => Verify(t) = "Expired"
        /\ (outIn[t] # -1 /\ ~Contains(outIn[t], t)) => Verify(t) = "Expired"

\* ----------------------------------------------------------------- C16
\* C16: every entry lapses exactly at the expires_at of its token, whenever
\* it was inserted; so a store shows no entry for a token past its
\* expires_at, entries exist only for tokens that were rotated or logged out,
\* and a store shows at most as many entries as there are unexpired revoked
\* tokens.
C16_EntriesWithinLifetime ==
    \A k \in {0, 1} :
        /\ \A t \in Toks :
              /\ StoreOf(k)[t] # 0 =>
                    /\ StoreOf(k)[t] = rtExp[t]
                    /\ t <= nTok
                    /\ rotIn[t] # -1 \/ outIn[t] # -1
              /\ Contains(k, t) => now <= rtExp[t]
        /\ Cardinality({t \in Toks : Contains(k, t)}) <=
              Cardinality({t \in Toks : now <= rtExp[t]
                                         /\ (rotIn[t] # -1 \/ outIn[t] # -1)})

\* a token was rotated later than it was issued (its entry got a ttl shorter
\* than a full lifetime) and the entry has lapsed with the token
C16_Witness ==
    \E c \in RotCalls :
        /\ cres[c] = "Pair"
        /\ rtExp[cnew[c]] > rtExp[ctok[c]]
        /\ StoreOf(rotIn[ctok[c]])[ctok[c]] = rtExp[ctok[c]]
        /\ now > rtExp[ctok[c]]
        /\ ~Contains(rotIn[ctok[c]], ctok[c])

C18_OneWarningPerOutage ==
    /\ warnings = hit
    /\ warnings <= downIO
    /\ warned <=> ioDown
    /\ ioDown => ~storeUp

\* two outages have been logged, one warning each, and more store calls
\* than that were made during them
C18_Witness ==
    /\ warnings = 2
    /\ hit = 2
    /\ downIO > 2

\* ----------------------------------------------------------------- C19
\* C19: every logout() returns success, whatever token it is given (valid,
\* expired, malformed, rotated or logged out before), and a logout of a
\* token whose entry the store already holds leaves the stores as they were.
C19_LogoutStep ==
    \A c \in RotCalls, t \in 0..MaxTok :
        Logout(c, t) =>
            /\ cres'[c] = "LoggedOut"
            /\ (t # 0 /\ StoreOf(StoreId)[t] # 0) => UNCHANGED <<shared, local>>

C19_NeverRefused ==
    \A c \in RotCalls, t \in 0..nTok :
        (cpc[c] = "idle" /\ \A d \in RotCalls : d < c => cpc[d] # "idle") =>
            ENABLED Logout(c, t)

C19_LogoutIdempotent == []C19_NeverRefused /\ [][C19_LogoutStep]_vars

\* the same token was logged out twice, both times with success, and is by
\* now past its expires_at and the tolerance
C19_Witness ==
    \E c, d \in RotCalls :
        /\ c < d
        /\ ctok[c] = ctok[d] /\ ctok[c] # 0
        /\ cres[c] = "LoggedOut" /\ cres[d] = "LoggedOut"
        /\ cout[d]
        /\ Verify(ctok[d]) = "Expired"

\* ----------------------------------------------------------------- C20
\* C20 as stated: parse_and_verify of a well-formed token at a time past its
\* expires_at yields Expired.
C20_PastExpiryStep ==
    \A c \in RotCalls, t \in Toks :
        (RotateVerify(c, t) /\ now > rtExp[t]) => cres'[c] = "Expired"

C20_PastToleranceStep ==
    \A c \in RotCalls, t \in Toks :
        RotateVerify(c, t) =>
            /\ now > rtExp[t] + Skew => (cres'[c] = "Expired" /\ cpc'[c] = "done")
            /\ cpc'[c] = "verified" => now <= rtExp[t] + Skew

C24_MarkerOnlyInFlight ==
    /\ ~isRefreshing => (refreshSubscribers = <<>> /\ refreshInFlight = 0)
    /\ refreshSubscribers # <<>> => (isRefreshing /\ refreshInFlight = 1)

C24_ResolveStep ==
    refreshDone' # refreshDone =>
        (isRefreshing' = FALSE /\ refreshSubscribers' = <<>>)

C24_MarkerLifetime == []C24_MarkerOnlyInFlight /\ [][C24_ResolveStep]_vars

\* a refresh with a waiter in its list has just returned
C24_Witness ==
    /\ microtasks # <<>>
    /\ refreshDone = 1
    /\ ~isRefreshing
    /\ refreshSubscribers = <<>>

\* ----------------------------------------------------------------- C25
\* C25: the location has been assigned exactly when some request that went
\* through handleRefreshFailure lacked _skipAuthRedirect and the page is not
\* /login, and then to /login?redirect=<encoded current path>; every such
\* request is rejected with its original 401.
ThroughFailure(r) == Participant(r) /\ Failed(part[r]) /\ ~Resuming(r)

C25_RedirectIffNotSkipped ==
    /\ href # <<>> <=>
          (pathname # LoginPath
             /\ \E r \in Reqs : ThroughFailure(r) /\ config[r].skip # TRUE)
    /\ href # <<>> =>
          href = <<"/", "login", "?", "redirect", "=">> \o encodeURIComponent(pathname)
    /\ \A r \in Reqs :
          ThroughFailure(r) => (pc[r] = "rejected" /\ error[r] = Original401)

\* one failed refresh with two participants, only one of them opted out:
\* the page is redirected
C25_Witness ==
    /\ AtEventLoop
    /\ refreshDone = 1 /\ Failed(1)
    /\ \E r, q \in Reqs :
          /\ ThroughFailure(r) /\ config[r].skip = TRUE
          /\ ThroughFailure(q) /\ config[q].skip = FALSE
    /\ href = <<"/", "login", "?", "redirect", "=", "%", "2", "F", "editor">>

\* ----------------------------------------------------------------- C26
\* how far a request is from being settled: every step of the interceptor,
\* and every abort, brings some request closer
Rank(r) ==
    (CASE pc[r] = "new" -> 6
       [] pc[r] = "sent" -> (IF retry[r] THEN 2 ELSE 5)
       [] pc[r] \in {"waiting", "initiator"} -> 4
       [] pc[r] = "resumed" -> 3
       [] OTHER -> 0)
    + (IF aborted[r] THEN 0 ELSE 1)

RECURSIVE RankSum(_)
RankSum(S) ==
    IF S = {} THEN 0
    ELSE LET r == CHOOSE x \in S : TRUE IN Rank(r) + RankSum(S \ {r})

\* a response, a refresh result or a released continuation can be delivered
Deliverable ==
    \/ \E r \in Reqs : ENABLED OnFulfilled(r)
    \/ \E r \in Reqs : ENABLED RefreshFailed(r, "error_response")
    \/ ENABLED ResumeWaiter

C26_Bounded ==
    /\ \A r \in Reqs : sends[r] <= 2 /\ calls[r] <= 2
    /\ \A r \in Reqs : (pc[r] # "new" /\ ~Settled(r)) => Deliverable

C26_Step ==
    /\ \A r \in Reqs : part[r] # 0 => part'[r] = part[r]
    /\ RankSum(Reqs)' < RankSum(Reqs)

\* C26: a request is sent at most twice and takes part in at most one
\* refresh; every step lowers a measure that is bounded below, and while a
\* started request is unsettled some response, refresh result or released
\* continuation can be delivered; when every response, refresh result and
\* continuation is delivered, each request is eventually settled for good,
\* whatever the responses.
C26_BoundedRecovery ==
    /\ []C26_Bounded
    /\ [][C26_Step]_vars
    /\ \A r \in Reqs : <>[](pc[r] \in {"new", "ok", "rejected"})

\* every request was answered 401, took part in a refresh, was retried,
\* answered 401 again and rejected
C26_Witness ==
    \A r \in Reqs :
        /\ part[r] # 0
        /\ sends[r] = 2
        /\ pc[r] = "rejected"
        /\ error[r] = [status |-> 401, attempt |-> 2]

\* ----------------------------------------------------------------- C27
Coordinator == <<isRefreshing, refreshSubscribers, refreshCalls, refreshInFlight>>

C27_FrameStep ==
    /\ \A r \in Reqs :
          (pc[r] = "sent" /\ pc'[r] # "sent"
             /\ (config[r].url \in AuthUrls \/ retry[r] \/ error'[r].status # 401))
              => UNCHANGED Coordinator
    /\ \A r \in Reqs :
          (pc[r] = "resumed" /\ pc'[r] # "resumed") => UNCHANGED Coordinator
    /\ (isRefreshing' # isRefreshing \/ refreshCalls' # refreshCalls) =>
          \E r \in Reqs : \/ pc[r] = "sent" /\ pc'[r] = "initiator"
                          \/ pc[r] = "initiator" /\ pc'[r] # "initiator"
    /\ refreshSubscribers' # refreshSubscribers =>
          \E r \in Reqs : \/ pc[r] = "sent" /\ pc'[r] = "waiting"
                          \/ pc[r] = "initiator" /\ pc'[r] # "initiator"

\* C27: a step that settles a request with a non-401 outcome, a 401 from an
\* auth endpoint or a 401 after its retry, and a step that resumes a released
\* waiter, leave the flag, the waiting list and the refresh calls as they
\* were; the flag and the refresh calls change only when a request starts a
\* refresh or its refresh returns, the list only then or when a request
\* joins it; no refresh is in flight while released waiters are resumed.
C27_OnlyInitiatorChangesState ==
    /\ [](microtasks # <<>> => (~isRefreshing /\ refreshInFlight = 0))
    /\ [][C27_FrameStep]_vars

\* with the second refresh in flight, the retry of a participant of the
\* first one got its second 401 and was rejected; the flag is still set
C27_Witness ==
    \E r, q \in Reqs :
        /\ part[r] = 1 /\ retry[r] /\ pc[r] = "rejected"
        /\ error[r] = [status |-> 401, attempt |-> 2]
        /\ part[q] = 2 /\ pc[q] = "initiator"
        /\ isRefreshing /\ refreshCalls = 2

\* ----------------------------------------------------------------- C28
Occurrences(r) ==
    Cardinality({i \in 1..Len(refreshSubscribers) : refreshSubscribers[i] = r})
      + Cardinality({i \in 1..Len(microtasks) : microtasks[i].req = r})

C28_Waiters ==
    /\ \A r \in Reqs :
          /\ Occurrences(r) <= 1
          /\ pc[r] = "waiting" <=> InQueue(r)
          /\ pc[r] = "resumed" <=> Resuming(r)
          /\ InQueue(r) =>
                (part[r] = refreshCalls /\ outcome[part[r]] = "none"
                   /\ refreshInFlight = 1)
          /\ Resuming(r) =>
                /\ part[r] = refreshDone
                /\ outcome[part[r]] # "none"
                /\ \A i \in 1..Len(microtasks) :
                      microtasks[i].req = r =>
                          microtasks[i].success = Succeeded(part[r])
    /\ refreshInFlight = 0 => refreshSubscribers = <<>>

C28_ResolveStep ==
    \A r \in Reqs :
        /\ (pc[r] = "resumed" /\ pc'[r] # "resumed") =>
              IF Succeeded(part[r])
              THEN retry'[r] /\ calls'[r] = 2
              ELSE pc'[r] = "rejected" /\ calls'[r] = 1 /\ ~retry'[r]
        /\ (part[r] # 0 /\ pc[r] \notin {"waiting", "resumed"}) =>
              pc'[r] \notin {"waiting", "resumed"}

\* C28: a waiter is in the list exactly while the refresh it joined is
\* outstanding; when that refresh returns it is released once, with the
\* outcome of that refresh (the one its initiator gets), its continuation
\* runs once, and it never waits again; no entry outlives the refresh.
C28_WaitersResolvedOnce == []C28_Waiters /\ [][C28_ResolveStep]_vars

\* the refresh failed: its initiator is rejected and its waiter has been
\* released with the same outcome
C28_Witness ==
    \E r, q \in Reqs :
        /\ part[r] = 1 /\ part[q] = 1 /\ Failed(1)
        /\ pc[q] = "rejected"
        /\ Resuming(r) /\ Head(microtasks) = [req |-> r, success |-> FALSE]

\* ----------------------------------------------------------------- C22
\* the refresh endpoint's refusals told apart by reason: each reaches the
\* client as the rejection of axios.post (api.ts:74-76, 84)
RefusalNext ==
    \/ Next
    \/ \E r \in Reqs, reason \in RefusalReasons : RefreshFailed(r, reason)

RefusalSpec == Init /\ [][RefusalNext]_vars

AnyFailure == FailKinds \cup RefusalReasons

C22_SameEnabling ==
    \A r \in Reqs :
        (pc[r] = "initiator" /\ microtasks = <<>>) =>
            \A k \in AnyFailure : ENABLED RefreshFailed(r, k)

ExpectedHref(r) ==
    IF config[r].skip # TRUE /\ pathname # LoginPath
    THEN <<"/", "login", "?", "redirect", "=">> \o encodeURIComponent(pathname)
    ELSE href

C22_FailureStep ==
    /\ \A e \in Reqs :
          (outcome'[e] # outcome[e] /\ outcome'[e] \in AnyFailure) =>
              (microtasks = <<>> /\ \E r \in Reqs : pc[r] = "initiator" /\ part[r] = e)
    /\ \A r \in Reqs :
          (pc[r] = "initiator" /\ outcome'[part[r]] \in AnyFailure) =>
              /\ isRefreshing' = FALSE
              /\ refreshSubscribers' = <<>>
              /\ microtasks' = [i \in 1..Len(refreshSubscribers) |->
                                  [req |-> refreshSubscribers[i], success |-> FALSE]]
              /\ pc' = [q \in Reqs |->
                          IF q = r THEN "rejected"
                          ELSE IF InQueue(q) THEN "resumed" ELSE pc[q]]
              /\ href' = ExpectedHref(r)
              /\ UNCHANGED <<config, retry, aborted, calls, sends, error,
                             refreshCalls, pathname>>
    /\ \A w \in Reqs :
          (pc[w] = "resumed" /\ pc'[w] # "resumed" /\ Failed(part[w])) =>
              /\ pc' = [pc EXCEPT ![w] = "rejected"]
              /\ microtasks' = Tail(microtasks)
              /\ href' = ExpectedHref(w)
              /\ UNCHANGED <<isRefreshing, refreshSubscribers, config, retry,
                             aborted, calls, sends, error, refreshCalls,
                             pathname>>

C22_SameResponse ==
    \A r \in Reqs :
        (part[r] # 0 /\ Failed(part[r]) /\ ~Resuming(r)) =>
            (pc[r] = "rejected" /\ error[r] = Original401)

ProviderNext ==
    \/ \E r \in Reqs, cfg \in Configs : Request(r, cfg)
    \/ \E r \in Reqs : OnFulfilled(r)
    \/ \E r \in Reqs, status \in Statuses : OnRejectedPass(r, status)
    \/ \E r \in Reqs : OnRejectedWait(r)
    \/ \E r \in Reqs : OnRejectedStart(r)
    \/ \E r \in Reqs : RefreshSucceeded(r)
    \/ \E r \in Reqs : RefreshFailed(r, "error_response")
    \/ ResumeWaiter
    \/ \E r \in Reqs : InitAuthStart(r)
    \/ InitAuthDone
    \/ \E r \in Reqs : LoginStart(r)
    \/ LoginPosted
    \/ LoginDone
    \/ \E r \in Reqs : LogoutStart(r)
    \/ LogoutDone

ProviderSpec == Init /\ [][ProviderNext]_vars

InLogin == authPc \in {"login_post", "login_me"}

C29_LoginRequest ==
    InLogin =>
        /\ authReq \in Reqs
        /\ loginResult = "pending"
        /\ pc[authReq] \in {"sent", "ok", "rejected"}
        /\ part[authReq] = 0 /\ ~retry[authReq] /\ sends[authReq] = 1

C29_LoginStep ==
    /\ (authPc' = "login_me" /\ authPc # "login_me") =>
          (authPc = "login_post" /\ pc[authReq] = "ok")
    /\ (loginResult = "pending" /\ loginResult' # "pending") =>
          IF authPc = "login_me" /\ pc[authReq] = "ok"
          THEN loginResult' = "true" /\ user' = UserData
          ELSE /\ loginResult' = "false" /\ user' = user
               /\ pc[authReq] = "rejected"
    /\ (InLogin /\ user' # user) => loginResult' = "true"
    /\ (InLogin /\ (pc'[authReq] # pc[authReq] \/ authPc' # authPc)) =>
          UNCHANGED <<isRefreshing, refreshSubscribers, microtasks,
                      refreshCalls, refreshInFlight, href>>

\* C29: login() returns true, with the user set, exactly when its POST
\* /api/auth/login and then its GET /api/auth/me were both fulfilled; if
\* either is rejected it returns false and leaves user as it was; its
\* requests are sent once, never join or start a refresh, and no step of
\* login changes the flag, the waiting list, the refresh calls or the href.
C29_LoginOutsideRefresh == []C29_LoginRequest /\ [][C29_LoginStep]_vars

\* login() has returned false while a user was held: the user is still
\* held, no refresh call was made and the page did not navigate
C29_Witness ==
    /\ authPc = "idle" /\ loginResult = "false"
    /\ user = UserData
    /\ refreshCalls = 0 /\ href = <<>>

C30_AuthState ==
    /\ isAuthenticated <=> user # Null
    /\ authPc \notin {"mount", "init_me"} => ~isLoading
    /\ authPc = "init_me" =>
          /\ pc[authReq] \in {"sent", "ok", "rejected"}
          /\ (Settled(authReq) /\ microtasks = <<>>) => ENABLED InitAuthDone
    /\ authPc = "logout_post" =>
          /\ pc[authReq] \in {"sent", "ok", "rejected"}
          /\ (Settled(authReq) /\ microtasks = <<>>) => ENABLED LogoutDone

C30_EndStep ==
    /\ (authPc = "logout_post" /\ authPc' # "logout_post") =>
          (user' = Null /\ ~isAuthenticated' /\ Settled(authReq))
    /\ (authPc = "init_me" /\ authPc' # "init_me") =>
          (~isLoading' /\ Settled(authReq))
    /\ ~isLoading => ~isLoading'

\* C30: logout() ends with user = null whether its POST was fulfilled or
\* rejected; isAuthenticated holds exactly when user is not null; the
\* identity check of the mount effect ends with isLoading = false whether
\* its GET was fulfilled or rejected, and isLoading stays false; both can
\* end as soon as their request has settled.
C30_LogoutAndLoadingEnd == []C30_AuthState /\ [][C30_EndStep]_vars

\* a login had set the user; logout() has ended since: user is null
C30_Witness ==
    /\ authPc = "idle" /\ loginResult = "true"
    /\ user = Null /\ ~isAuthenticated /\ ~isLoading

\* ----------------------------------------------------------------- C21
C21_LoginStep ==
    \A valid \in BOOLEAN, persistent \in BOOLEAN :
        Login(valid, persistent) =>
            IF valid
            THEN /\ lres' = "Tokens"
                 /\ (nTok' = nTok + 1) <=> persistent
                 /\ nTok' = nTok \/ nTok' = nTok + 1
                 /\ \E a \in Accs :
                       /\ acExp[a] = -1
                       /\ acExp' = [acExp EXCEPT ![a] = now + AccessTtl]
                       /\ a = (IF persistent THEN nTok' ELSE 0)
            ELSE /\ lres' = "InvalidCredentials"
                 /\ UNCHANGED <<nTok, rtExp, acExp>>

IssuedNow(a) == acExp[a] # -1 /\ now = acExp[a] - AccessTtl

C21_ValidAtIssue ==
    /\ lres = "none" => (nTok = 0 /\ \A a \in Accs : acExp[a] = -1)
    /\ lres = "InvalidCredentials" => (nTok = 0 /\ \A a \in Accs : acExp[a] = -1)
    /\ lres = "Tokens" => (acExp[0] # -1 \/ acExp[1] # -1)
    /\ \A a \in Accs :
          IssuedNow(a) =>
              /\ AccessCheck(a) = "Ok"
              /\ a # 0 =>
                    /\ a <= nTok /\ rtExp[a] = now + RefreshTtl
                    /\ Verify(a) = "Ok"
                    /\ (rotIn[a] = -1 /\ outIn[a] = -1) => ~Contains(StoreId, a)
    /\ \A c \in RotCalls :
          (cres[c] \in {"Expired", "Invalid"} /\ ctok[c] # 0) =>
              now > rtExp[ctok[c]]

\* C21: a login with valid credentials returns an access token that passes
\* the codec's check at that instant, and a refresh token exactly when a
\* persistent session was asked for; that refresh token verifies at that
\* instant and is in no revocation store until it is rotated or logged out,
\* and no rotate() refuses it as expired before its expires_at.  A login
\* with wrong credentials returns InvalidCredentials and issues no token.
C21_LoginIssuesValidTokens == []C21_ValidAtIssue /\ [][C21_LoginStep]_vars

\* rotate() on the refresh token of the login returned a pair at the
\* instant of the login
C21_Witness ==
    /\ lres = "Tokens" /\ IssuedNow(1)
    /\ \E c \in RotCalls : ctok[c] = 1 /\ cres[c] = "Pair"

\* ----------------------------------------------------------------- C23
C23_AuthenticateStep ==
    \A a \in Accs :
        Authenticate(a) =>
            /\ (acExp[a] # -1 /\ now <= acExp[a]) => areq'.res = "Authenticated"
            /\ acExp[a] = -1 => areq'.res = "Unauthenticated"
            /\ UNCHANGED <<shared, local, warnings, downIO>>

====
